---- MODULE Spec2Model ----
(***************************************************************************)
(* A model of github.com/snowmerak/scope (scope.go): the sequential and    *)
(* the parallel runner, the context wrappers and the twelve orchestrators  *)
(* Sequence*, All*, Any*.                                                  *)
(*                                                                         *)
(* One behaviour is one orchestrator call.  The caller's thread is the     *)
(* program counter pc; every work item of a parallel batch is a goroutine  *)
(* of its own (item[i]).  parallel() has no join: the goroutines write     *)
(* errs[i] while the caller's thread reads and compacts errs, so every     *)
(* access to errs is a step of its own and all interleavings are kept.     *)
(* A slot of errs is read, written or moved as a whole (no torn values),  *)
(* and a goroutine that indexes errs beyond its current length panics.     *)
(* Go indices are 0-based: the model keeps them in nilIdx and adds one     *)
(* when it indexes the TLA+ sequence errs.  A work item applies its        *)
(* mutation of the caller's state when it is invoked, whatever it returns. *)
(***************************************************************************)
EXTENDS Integers, Sequences, FiniteSets, TLC

\* ------------------------------------------------------------------ bounds

\* the longest batch drawn for Sequence*
MaxSeqWorks == 3

\* the longest batch, over all three outcomes, drawn for every All* and Any*
MaxParWorks == 2

\* ------------------------------------------------------- program constants

\* nilIdx := make([]int, 4): a slice of LENGTH four, holding four zeros
NilIdxLen == 4

\* ------------------------------------------------------------------ values

\* what a work item does when it is invoked: return nil, return an error,
\* trigger a runtime fault, or ("wait") poll its ctx until it is cancelled
\* and then return ctx.Err()
Outcomes == {"ok", "fail", "panic", "wait"}

Kinds == {"Sequence", "All", "Any"}

Wrappers == {"plain", "cancel", "timeout", "deadline"}

\* A failure value is the sequence of its constituent failures; nil is <<>>.
NilErr == <<>>

\* the error a work item at (1-based) position i returns
WorkErr(i) == << <<"work", i>> >>

\* fmt.Errorf("scope recovered: %v", r) for a fault of the work item at i
RecoveredErr(i) == << <<"recovered", i>> >>

\* fmt.Errorf("scope recovered: %v", r) for the runner's own slice-bounds fault
BoundsErr == << <<"recovered", 0>> >>

\* the failure the work item at position i of batch f produces
OutcomeErr(f, i) ==
    IF f[i].out = "ok" THEN NilErr
    ELSE IF f[i].out = "panic" THEN RecoveredErr(i)
    ELSE WorkErr(i)

RECURSIVE Pow2(_)
Pow2(n) == IF n = 0 THEN 1 ELSE 2 * Pow2(n - 1)

\* A work item: its outcome, and the amount it adds to the caller's state
\* (riddle.AddOne, AddTwo, SubOne add 1, 2, -1).  In a drawn batch item i adds
\* 2^(i-1), so that the state tells which items have applied their mutation.
Batch(outs) == [i \in DOMAIN outs |-> [out |-> outs[i], delta |-> Pow2(i - 1)]]

\* the batches of lo..hi work items with outcomes in outs
Batches(lo, hi, outs) == UNION {{Batch(o) : o \in [1..m -> outs]} : m \in lo..hi}

\* The shortest batch in which parallel's compaction runs to its end with a
\* failure left over: NilIdxLen failures for the four zeros of nilIdx, and one
\* more item.
WideLen == NilIdxLen + 1

\* whether the state s holds the mutation of item i of a drawn batch
Applied(s, i) == (s \div Pow2(i - 1)) % 2 = 1

\* errors.Join: the non-nil errors in order, nil when there is none
RECURSIVE Join(_)
Join(es) ==
    IF es = <<>> THEN NilErr
    ELSE Head(es) \o Join(Tail(es))

\* slices.Reverse
RECURSIVE Reverse(_)
Reverse(s) == IF s = <<>> THEN <<>> ELSE Reverse(Tail(s)) \o <<Head(s)>>

\* ------------------------------------------------------------------- state

VARIABLES
    call,          \* the arguments: [kind, wrapper, cleanUp (non-nil?), f]
    pc,            \* where the caller's thread is
    k,             \* the loop index of the caller's thread (1-based)
    item,          \* item[i]: "new", "ready" (go statement done), "running", "done"
    errs,          \* the backing array of errs (len(f) slots)
    errsLen,       \* len(errs)
    nilIdx,        \* parallel's nilIdx (0-based indices)
    success,       \* parallel's named result success
    err,           \* the runner's named result err
    state,         \* the caller's state (riddle.State.number)
    checkerCalls,  \* how often errChecker was invoked
    checkerArg,    \* the failure errChecker received
    cleanUpCalls,  \* how often cleanUp was invoked
    parentDone,    \* the caller's ctx is cancelled
    ctxDone,       \* the derived ctx is cancelled
    crashed        \* the process died of an unrecovered panic

vars == <<call, pc, k, item, errs, errsLen, nilIdx, success, err, state,
          checkerCalls, checkerArg, cleanUpCalls, parentDone, ctxDone, crashed>>

N == Len(call.f)

\* the ctx the runner, the work items and cleanUp receive
CtxDone == IF call.wrapper = "plain" THEN parentDone ELSE ctxDone

InitCall(c) ==
    /\ call = c
    /\ pc = "enter"
    /\ k = 1
    /\ item = [i \in 1..Len(c.f) |-> "new"]
    /\ errs = <<>>
    /\ errsLen = 0
    /\ nilIdx = <<>>
    /\ success = 0
    /\ err = NilErr
    /\ state = 0
    /\ checkerCalls = 0
    /\ checkerArg = NilErr
    /\ cleanUpCalls = 0
    /\ parentDone = FALSE
    /\ ctxDone = FALSE
    /\ crashed = FALSE

\* Sequence* calls: every wrapper, with and without cleanUp
SequenceCalls ==
    [kind : {"Sequence"}, wrapper : Wrappers, cleanUp : BOOLEAN,
     f : Batches(0, MaxSeqWorks, Outcomes)]

\* All* and Any* calls: every wrapper, with and without cleanUp, on short
\* batches; and the plain All and Any on the longer batches, up to WideLen
\* items that succeed or return an error
ParallelCalls ==
    [kind : {"All", "Any"}, wrapper : Wrappers, cleanUp : BOOLEAN,
     f : Batches(0, MaxParWorks, Outcomes)]
    \cup
    [kind : {"All", "Any"}, wrapper : {"plain"}, cleanUp : {TRUE},
     f : Batches(MaxParWorks + 1, WideLen, {"ok", "fail"})]

Init == \E c \in SequenceCalls \cup ParallelCalls : InitCall(c)

InitSequence == \E c \in SequenceCalls : InitCall(c)

\* the work item at position i polls its ctx, which is not cancelled: it does
\* not return yet
Blocked(i) == call.f[i].out = "wait" /\ ~CtxDone

\* ------------------------------------------------------------ the wrappers

\* context.WithCancel / WithTimeout / WithDeadline at the head of the
\* orchestrator (none for the plain ones), then the call of the runner.  A
\* ctx derived from a cancelled parent is cancelled.
Derive ==
    /\ ~crashed
    /\ pc = "enter"
    /\ ctxDone' = (call.wrapper # "plain" /\ parentDone)
    /\ pc' = IF call.kind = "Sequence" THEN "sequence" ELSE "parallel"
    /\ k' = 1
    /\ UNCHANGED <<call, item, errs, errsLen, nilIdx, success, err, state,
                   checkerCalls, checkerArg, cleanUpCalls, parentDone, crashed>>

\* the timer of WithTimeout / WithDeadline fires
Expire ==
    /\ ~crashed
    /\ call.wrapper \in {"timeout", "deadline"}
    /\ pc # "enter"
    /\ ~ctxDone
    /\ ctxDone' = TRUE
    /\ UNCHANGED <<call, pc, k, item, errs, errsLen, nilIdx, success, err, state,
                   checkerCalls, checkerArg, cleanUpCalls, parentDone, crashed>>

\* the caller cancels the ctx it passed in; a derived ctx follows
ParentCancel ==
    /\ ~crashed
    /\ ~parentDone
    /\ parentDone' = TRUE
    /\ ctxDone' = (ctxDone \/ (call.wrapper # "plain" /\ pc # "enter"))
    /\ UNCHANGED <<call, pc, k, item, errs, errsLen, nilIdx, success, err, state,
                   checkerCalls, checkerArg, cleanUpCalls, crashed>>

\* ---------------------------------------------------------------- sequence

\* sequenceStep as it would be if the loop went on after a failure
sequenceStepNoStop ==
    /\ ~crashed
    /\ pc = "sequence"
    /\ k <= N
    /\ ~Blocked(k)
    /\ state' = state + call.f[k].delta
    /\ k' = k + 1
    /\ err' = IF call.f[k].out = "ok" THEN err ELSE OutcomeErr(call.f, k)
    /\ UNCHANGED <<call, pc, item, errs, errsLen, nilIdx, success,
                   checkerCalls, checkerArg, cleanUpCalls, parentDone, ctxDone, crashed>>

\* sequenceStep as it would be without the deferred recover(): a fault of a
\* work item unwinds through the orchestrator and ends the process
sequenceStepNoRecover ==
    /\ ~crashed
    /\ pc = "sequence"
    /\ k <= N
    /\ ~Blocked(k)
    /\ state' = state + call.f[k].delta
    /\ IF call.f[k].out = "ok"
       THEN /\ k' = k + 1
            /\ UNCHANGED <<pc, err, crashed>>
       ELSE IF call.f[k].out # "panic"
       THEN /\ err' = OutcomeErr(call.f, k)
            /\ pc' = "check"
            /\ UNCHANGED <<k, crashed>>
       ELSE /\ crashed' = TRUE
            /\ UNCHANGED <<k, pc, err>>
    /\ UNCHANGED <<call, item, errs, errsLen, nilIdx, success,
                   checkerCalls, checkerArg, cleanUpCalls, parentDone, ctxDone>>

\* one iteration of sequence's loop: invoke f[k] (an item that polls its ctx
\* returns once the ctx is cancelled); an error returns it, a fault is
\* recovered by the deferred function and returned as an error
sequenceStep ==
    /\ ~crashed
    /\ pc = "sequence"
    /\ k <= N
    /\ ~Blocked(k)
    /\ state' = state + call.f[k].delta
    /\ IF call.f[k].out = "ok"
       THEN /\ k' = k + 1
            /\ UNCHANGED <<pc, err>>
       ELSE /\ err' = OutcomeErr(call.f, k)
            /\ pc' = "check"
            /\ UNCHANGED k
    /\ UNCHANGED <<call, item, errs, errsLen, nilIdx, success,
                   checkerCalls, checkerArg, cleanUpCalls, parentDone, ctxDone, crashed>>

\* the loop is over: return nil
sequenceReturn ==
    /\ ~crashed
    /\ pc = "sequence"
    /\ k > N
    /\ err' = NilErr
    /\ pc' = "check"
    /\ UNCHANGED <<call, k, item, errs, errsLen, nilIdx, success, state,
                   checkerCalls, checkerArg, cleanUpCalls, parentDone, ctxDone, crashed>>

\* ---------------------------------------------------------------- parallel

\* errs := make([]error, len(f))
parallelMake ==
    /\ ~crashed
    /\ pc = "parallel"
    /\ errs' = [i \in 1..N |-> NilErr]
    /\ errsLen' = N
    /\ pc' = "launch"
    /\ k' = 1
    /\ UNCHANGED <<call, item, nilIdx, success, err, state,
                   checkerCalls, checkerArg, cleanUpCalls, parentDone, ctxDone, crashed>>

\* one iteration of the launch loop: go func(i, w) {...}(i, w).  The go
\* statement returns at once; nothing in parallel waits for the goroutine.
parallelLaunch ==
    /\ ~crashed
    /\ pc = "launch"
    /\ k <= N
    /\ item' = [item EXCEPT ![k] = "ready"]
    /\ k' = k + 1
    /\ UNCHANGED <<call, pc, errs, errsLen, nilIdx, success, err, state,
                   checkerCalls, checkerArg, cleanUpCalls, parentDone, ctxDone, crashed>>

\* nilIdx := make([]int, 4), after the launch loop
parallelMakeNilIdx ==
    /\ ~crashed
    /\ pc = "launch"
    /\ k > N
    /\ nilIdx' = [j \in 1..NilIdxLen |-> 0]
    /\ pc' = "collect"
    /\ k' = 1
    /\ UNCHANGED <<call, item, errs, errsLen, success, err, state,
                   checkerCalls, checkerArg, cleanUpCalls, parentDone, ctxDone, crashed>>

\* the goroutine of item i starts: it invokes w(ctx, state), which mutates
\* the caller's state
workStart(i) ==
    /\ ~crashed
    /\ item[i] = "ready"
    /\ item' = [item EXCEPT ![i] = "running"]
    /\ state' = state + call.f[i].delta
    /\ UNCHANGED <<call, pc, k, errs, errsLen, nilIdx, success, err,
                   checkerCalls, checkerArg, cleanUpCalls, parentDone, ctxDone, crashed>>

\* The goroutine of item i ends (an item that polls its ctx, once the ctx is
\* cancelled).  A nil result writes nothing.  An error is
\* written to errs[i], a fault is recovered and written to errs[i]; errs is
\* the variable the caller's thread is shortening, so the index may be out of
\* range by now: that write panics, the deferred function recovers and writes
\* errs[i] again, which panics inside the deferred function, and the process
\* dies.
workFinish(i) ==
    /\ ~crashed
    /\ item[i] = "running"
    /\ ~Blocked(i)
    /\ item' = [item EXCEPT ![i] = "done"]
    /\ IF call.f[i].out = "ok"
       THEN UNCHANGED <<errs, crashed>>
       ELSE IF i - 1 < errsLen
       THEN /\ errs' = [errs EXCEPT ![i] = OutcomeErr(call.f, i)]
            /\ UNCHANGED crashed
       ELSE /\ crashed' = TRUE
            /\ UNCHANGED errs
    /\ UNCHANGED <<call, pc, k, errsLen, nilIdx, success, err, state,
                   checkerCalls, checkerArg, cleanUpCalls, parentDone, ctxDone>>

\* one iteration of "for i, err := range errs": a nil slot's index is appended
parallelCollect ==
    /\ ~crashed
    /\ pc = "collect"
    /\ k <= N
    /\ nilIdx' = IF errs[k] = NilErr THEN Append(nilIdx, k - 1) ELSE nilIdx
    /\ k' = k + 1
    /\ UNCHANGED <<call, pc, item, errs, errsLen, success, err, state,
                   checkerCalls, checkerArg, cleanUpCalls, parentDone, ctxDone, crashed>>

\* slices.Reverse(nilIdx); success = len(nilIdx)
parallelReverse ==
    /\ ~crashed
    /\ pc = "collect"
    /\ k > N
    /\ nilIdx' = Reverse(nilIdx)
    /\ success' = Len(nilIdx)
    /\ pc' = "compact"
    /\ k' = 1
    /\ UNCHANGED <<call, item, errs, errsLen, err, state,
                   checkerCalls, checkerArg, cleanUpCalls, parentDone, ctxDone, crashed>>

\* errs = append(errs[:i], errs[i+1:]...) on the backing array a of length
\* len: the slots after i move down by one, the last slot keeps its value
Delete(a, len, i) ==
    [j \in DOMAIN a |-> IF j >= i + 1 /\ j < len THEN a[j + 1] ELSE a[j]]

\* One iteration of "for _, i := range nilIdx".  errs[i+1:] faults when
\* i+1 > len(errs); parallel's deferred function recovers the fault into err
\* and parallel returns, success keeping the value it was given.
parallelCompact ==
    /\ ~crashed
    /\ pc = "compact"
    /\ k <= Len(nilIdx)
    /\ IF nilIdx[k] + 1 > errsLen
       THEN /\ err' = BoundsErr
            /\ pc' = "check"
            /\ UNCHANGED <<k, errs, errsLen>>
       ELSE /\ errs' = Delete(errs, errsLen, nilIdx[k])
            /\ errsLen' = errsLen - 1
            /\ k' = k + 1
            /\ UNCHANGED <<pc, err>>
    /\ UNCHANGED <<call, item, nilIdx, success, state,
                   checkerCalls, checkerArg, cleanUpCalls, parentDone, ctxDone, crashed>>

\* return success, errors.Join(errs...)
parallelJoin ==
    /\ ~crashed
    /\ pc = "compact"
    /\ k > Len(nilIdx)
    /\ err' = Join(SubSeq(errs, 1, errsLen))
    /\ pc' = "check"
    /\ UNCHANGED <<call, k, item, errs, errsLen, nilIdx, success, state,
                   checkerCalls, checkerArg, cleanUpCalls, parentDone, ctxDone, crashed>>

\* ------------------------------------------------------- the orchestrators

\* whether the orchestrator reports the runner's result: Sequence* and All*
\* when err is not nil, Any* when success is zero
Reports(kind, succ, e) ==
    IF kind = "Any" THEN succ = 0 ELSE e # NilErr

\* errCheck as it would be without its condition: the callback is invoked
\* whatever the runner returned
errCheckAlways ==
    /\ ~crashed
    /\ pc = "check"
    /\ checkerCalls' = checkerCalls + 1
    /\ checkerArg' = err
    /\ pc' = "cleanup"
    /\ UNCHANGED <<call, k, item, errs, errsLen, nilIdx, success, err, state,
                   cleanUpCalls, parentDone, ctxDone, crashed>>

\* errCheck as it would be if cleanUp were invoked while errChecker runs
errCheckWithCleanUp ==
    /\ ~crashed
    /\ pc = "check"
    /\ IF Reports(call.kind, success, err)
       THEN /\ checkerCalls' = checkerCalls + 1
            /\ checkerArg' = err
            /\ cleanUpCalls' = IF call.cleanUp THEN cleanUpCalls + 1 ELSE cleanUpCalls
            /\ pc' = "return"
       ELSE /\ UNCHANGED <<checkerCalls, checkerArg, cleanUpCalls>>
            /\ pc' = "cleanup"
    /\ UNCHANGED <<call, k, item, errs, errsLen, nilIdx, success, err, state,
                   parentDone, ctxDone, crashed>>

\* if err != nil { errChecker(err) }, or if success == 0 { errChecker(err) }
errCheck ==
    /\ ~crashed
    /\ pc = "check"
    /\ IF Reports(call.kind, success, err)
       THEN /\ checkerCalls' = checkerCalls + 1
            /\ checkerArg' = err
       ELSE UNCHANGED <<checkerCalls, checkerArg>>
    /\ pc' = "cleanup"
    /\ UNCHANGED <<call, k, item, errs, errsLen, nilIdx, success, err, state,
                   cleanUpCalls, parentDone, ctxDone, crashed>>

\* if cleanUp != nil { cleanUp(ctx, state) }
runCleanUp ==
    /\ ~crashed
    /\ pc = "cleanup"
    /\ cleanUpCalls' = IF call.cleanUp THEN cleanUpCalls + 1 ELSE cleanUpCalls
    /\ pc' = "return"
    /\ UNCHANGED <<call, k, item, errs, errsLen, nilIdx, success, err, state,
                   checkerCalls, checkerArg, parentDone, ctxDone, crashed>>

\* the ctx if the wrappers did not defer cancel()
NoDeferredCancel == ctxDone

\* the ctx after the deferred cancel() of a wrapper has run, when the
\* orchestrator returns or unwinds
DeferredCancel == ctxDone \/ call.wrapper # "plain"

\* the orchestrator returns; the deferred cancel() of a wrapper runs
Return ==
    /\ ~crashed
    /\ pc = "return"
    /\ ctxDone' = DeferredCancel
    /\ pc' = "done"
    /\ UNCHANGED <<call, k, item, errs, errsLen, nilIdx, success, err, state,
                   checkerCalls, checkerArg, cleanUpCalls, parentDone, crashed>>

Next ==
    \/ Derive
    \/ Expire
    \/ ParentCancel
    \/ sequenceStep
    \/ sequenceReturn
    \/ parallelMake
    \/ parallelLaunch
    \/ parallelMakeNilIdx
    \/ \E i \in 1..N : workStart(i)
    \/ \E i \in 1..N : workFinish(i)
    \/ parallelCollect
    \/ parallelReverse
    \/ parallelCompact
    \/ parallelJoin
    \/ errCheck
    \/ runCleanUp
    \/ Return

Spec == Init /\ [][Next]_vars

\* the Sequence* orchestrators alone
NextSequence ==
    \/ Derive
    \/ Expire
    \/ ParentCancel
    \/ sequenceStep
    \/ sequenceReturn
    \/ errCheck
    \/ runCleanUp
    \/ Return

SpecSequence == InitSequence /\ [][NextSequence]_vars

\* ------------------------------------------------------------- the claims

\* the runner has returned to the orchestrator
Returned == pc \in {"check", "cleanup", "return", "done"}

\* the position of the first work item of f that does not succeed, Len(f)+1
\* when all succeed
FirstFail(f) ==
    IF \E i \in DOMAIN f : f[i].out # "ok"
    THEN CHOOSE i \in DOMAIN f :
            /\ f[i].out # "ok"
            /\ \A j \in DOMAIN f : f[j].out # "ok" => i <= j
    ELSE Len(f) + 1

\* the failure the parallel runner is specified to return for batch f: the
\* failures of the items that fail, in the order of the items
Aggregate(f) == Join([i \in DOMAIN f |-> OutcomeErr(f, i)])

\* the number of items of f with outcome o
Count(f, o) == Cardinality({i \in DOMAIN f : f[i].out = o})

\* The runner read every failing item's slot after the item had written it:
\* nilIdx then holds its four zeros and the indices of the succeeding items
\* only.  (A run in which the missing join of C1 did not change what the
\* runner collected.)
CollectedAll == Len(nilIdx) = NilIdxLen + Count(call.f, "ok")

\* a step of the caller's thread in a Sequence* call
SequenceMainStep ==
    Derive \/ sequenceStep \/ sequenceReturn \/ errCheck \/ runCleanUp \/ Return

\* C1: once the parallel runner has returned to All* / Any*, every work item
\* it launched has finished.
C1_ParallelJoin ==
    (call.kind \in {"All", "Any"} /\ Returned)
        => \A i \in 1..N : item[i] = "done"

\* C2: Sequence* invokes the items one at a time in list order (while the
\* loop is at position k exactly the items before k have applied their
\* mutation), it never goes past the first item that fails, and once the
\* runner has returned every item before the first failing one has applied
\* its mutation (none is undone) and no item after it has.
C2_SequenceOrder ==
    call.kind = "Sequence" =>
        /\ pc = "enter" => state = 0
        /\ pc = "sequence" =>
              /\ k <= FirstFail(call.f)
              /\ \A i \in 1..N : Applied(state, i) <=> i < k
        /\ Returned =>
              \A i \in 1..N :
                  /\ i < FirstFail(call.f) => Applied(state, i)
                  /\ i > FirstFail(call.f) => ~Applied(state, i)

\* a Sequence call of three items has returned after its second item failed:
\* the first two mutations are in the state, the third is not
C2_Witness ==
    /\ call.kind = "Sequence"
    /\ N = 3
    /\ call.f[1].out = "ok"
    /\ call.f[2].out = "fail"
    /\ pc = "done"
    /\ state = 3

\* C3: whenever an orchestrator call with a cleanUp hook has ended (it has
\* returned, or the process has died), cleanUp was invoked exactly once; and
\* it is never invoked twice.
C3_CleanUpExactlyOnce ==
    /\ cleanUpCalls <= 1
    /\ (call.cleanUp /\ (pc = "done" \/ crashed)) => cleanUpCalls = 1

\* C4: a call with no work items that has returned has not invoked the error
\* callback and has invoked a supplied cleanUp exactly once.
C4_EmptyBatch ==
    (N = 0 /\ pc = "done") =>
        /\ checkerCalls = 0
        /\ call.cleanUp => cleanUpCalls = 1

\* C5: on a batch in which at least one item succeeds and all others fail
\* (at least one does), Any* returns without having invoked the error
\* callback and All* returns having invoked it.  (Stated for the runs in
\* which the runner collected every failure.)
C5_AnySuccessSuppression ==
    (/\ call.kind \in {"All", "Any"}
     /\ CollectedAll
     /\ Count(call.f, "ok") >= 1
     /\ Count(call.f, "ok") < N
     /\ pc = "done")
        => checkerCalls = (IF call.kind = "Any" THEN 0 ELSE 1)

\* C6: on a non-empty batch in which every item fails, the parallel runner's
\* success count is zero and Any* has invoked the error callback exactly once,
\* with the aggregated failure, when it returns.  (Stated for the runs in
\* which the runner collected every failure.)
C6_AnyTotalFailure ==
    (/\ call.kind = "Any"
     /\ CollectedAll
     /\ N >= 1
     /\ Count(call.f, "ok") = 0
     /\ pc = "done")
        => /\ success = 0
           /\ checkerCalls = 1
           /\ checkerArg = Aggregate(call.f)

\* C7: on a batch in which exactly one item faults and all others succeed,
\* All* has invoked the error callback with the failure recovered from that
\* fault, and the success count is N-1, when it returns.  (Stated for the
\* runs in which the runner collected the failure, all items having finished.)
C7_FaultContainment ==
    (/\ call.kind = "All"
     /\ CollectedAll
     /\ \A i \in 1..N : item[i] = "done"
     /\ Count(call.f, "panic") = 1
     /\ Count(call.f, "ok") = N - 1
     /\ pc = "done")
        => /\ checkerCalls = 1
           /\ checkerArg = Aggregate(call.f)
           /\ success = N - 1

\* C8: on a non-empty batch in which every item succeeds the parallel runner
\* returns nil, and All* does not invoke the error callback.
C8_AllSuccessSilent ==
    (/\ call.kind \in {"All", "Any"}
     /\ N >= 1
     /\ Count(call.f, "ok") = N
     /\ Returned)
        => /\ err = NilErr
           /\ call.kind = "All" => checkerCalls = 0

\* C9: the failure the parallel runner returns holds exactly the failures of
\* the items that failed, in the order of the items, and is nil exactly when
\* no item failed.  (Stated for the runs in which the runner collected every
\* failure.)
C9_AggregatedFailure ==
    (call.kind \in {"All", "Any"} /\ Returned /\ CollectedAll)
        => err = Aggregate(call.f)

\* C10: when the first item of a Sequence* call that does not succeed, at
\* position kk, faults, the fault does not end the process, no item after kk
\* is invoked, the runner returns the failure recovered from the fault, the
\* error callback is invoked exactly once with it, cleanUp (if supplied) then
\* runs once, and the call is never stuck before it has returned.
C10_SequentialFaultConversion ==
    LET kk == FirstFail(call.f) IN
    (call.kind = "Sequence" /\ kk <= N /\ call.f[kk].out = "panic") =>
        /\ ~crashed
        /\ \A i \in 1..N : i > kk => ~Applied(state, i)
        /\ pc = "sequence" => k <= kk
        /\ pc = "check" => (err = RecoveredErr(kk) /\ checkerCalls = 0)
        /\ pc \in {"cleanup", "return", "done"} =>
              (checkerCalls = 1 /\ checkerArg = RecoveredErr(kk))
        /\ pc \in {"enter", "sequence", "check", "cleanup"} => cleanUpCalls = 0
        /\ pc \in {"return", "done"} =>
              cleanUpCalls = (IF call.cleanUp THEN 1 ELSE 0)
        /\ pc # "done" => ENABLED SequenceMainStep

\* a Sequence call of three items with a cleanUp hook has returned after its
\* second item faulted: the callback got the recovered failure, cleanUp ran
C10_Witness ==
    /\ call.kind = "Sequence"
    /\ call.cleanUp
    /\ N = 3
    /\ call.f[1].out = "ok"
    /\ call.f[2].out = "panic"
    /\ pc = "done"
    /\ ~crashed
    /\ checkerCalls = 1
    /\ checkerArg = RecoveredErr(2)
    /\ cleanUpCalls = 1
    /\ state = 3

\* C11: the error callback is invoked at most once in every orchestrator
\* call; in Sequence* it has not been invoked before the runner returned, and
\* once the report step is over it has been invoked exactly once if some item
\* failed and not at all if every item succeeded.
C11_CallbackMultiplicity ==
    /\ checkerCalls <= 1
    /\ call.kind = "Sequence" =>
          /\ pc \in {"enter", "sequence", "check"} => checkerCalls = 0
          /\ pc \in {"cleanup", "return", "done"} =>
                checkerCalls = (IF FirstFail(call.f) <= N THEN 1 ELSE 0)

\* a Sequence call of two items has returned after its second item failed,
\* the callback invoked once with that item's failure
C11_Witness ==
    /\ call.kind = "Sequence"
    /\ N = 2
    /\ call.f[1].out = "ok"
    /\ call.f[2].out = "fail"
    /\ pc = "done"
    /\ checkerCalls = 1
    /\ checkerArg = WorkErr(2)

\* C12: in All* and Any*, once cleanUp has been invoked every work item of
\* the call has finished (none is still to start or running).
C12_CleanUpAfterItems ==
    (call.kind \in {"All", "Any"} /\ cleanUpCalls >= 1)
        => \A i \in 1..N : item[i] = "done"

\* C13: when a SequenceWithTimeout, AllWithTimeout or AnyWithTimeout call has
\* returned, every work item it ran that finishes only on seeing its ctx
\* cancelled has seen that and finished.  (Sequence* runs the items up to the
\* first failing one; All* and Any* launch them all.)
C13_TimeoutObservation ==
    (call.wrapper = "timeout" /\ pc = "done") =>
        \A i \in 1..N :
            (call.f[i].out = "wait"
                /\ (call.kind = "Sequence" => i <= FirstFail(call.f)))
            => IF call.kind = "Sequence"
               THEN Applied(state, i)
               ELSE item[i] = "done"

\* ------------------------------------------- faults of the caller's hooks

\* errChecker(err) is invoked and faults: the fault unwinds through the
\* orchestrator, which skips cleanUp; the deferred cancel() of a wrapper runs
\* and the fault goes on to the caller
errCheckPanic ==
    /\ ~crashed
    /\ pc = "check"
    /\ Reports(call.kind, success, err)
    /\ checkerCalls' = checkerCalls + 1
    /\ checkerArg' = err
    /\ ctxDone' = DeferredCancel
    /\ pc' = "panicked"
    /\ UNCHANGED <<call, k, item, errs, errsLen, nilIdx, success, err, state,
                   cleanUpCalls, parentDone, crashed>>

\* cleanUp(ctx, state) is invoked and faults: the deferred cancel() of a
\* wrapper runs and the fault goes on to the caller
cleanUpPanic ==
    /\ ~crashed
    /\ pc = "cleanup"
    /\ call.cleanUp
    /\ cleanUpCalls' = cleanUpCalls + 1
    /\ ctxDone' = DeferredCancel
    /\ pc' = "panicked"
    /\ UNCHANGED <<call, k, item, errs, errsLen, nilIdx, success, err, state,
                   checkerCalls, checkerArg, parentDone, crashed>>

NextUnwind ==
    \/ Derive
    \/ Expire
    \/ ParentCancel
    \/ sequenceStep
    \/ sequenceReturn
    \/ parallelMake
    \/ parallelLaunch
    \/ parallelMakeNilIdx
    \/ \E i \in 1..N : workStart(i)
    \/ \E i \in 1..N : workFinish(i)
    \/ parallelCollect
    \/ parallelReverse
    \/ parallelCompact
    \/ parallelJoin
    \/ errCheck
    \/ errCheckPanic
    \/ runCleanUp
    \/ cleanUpPanic
    \/ Return

\* the orchestrators with hooks that may fault
SpecUnwind == Init /\ [][NextUnwind]_vars

\* C14: once a *WithCancel, *WithTimeout or *WithDeadline call is over, by
\* returning or by unwinding from a fault of errChecker or cleanUp, its
\* derived ctx is cancelled.
C14_ScopeRelease ==
    (call.wrapper # "plain" /\ pc \in {"done", "panicked"}) => ctxDone

\* a *WithCancel call whose parent ctx is live has unwound from a fault of a
\* hook, and its ctx is cancelled
C14_Witness ==
    /\ call.wrapper = "cancel"
    /\ pc = "panicked"
    /\ ~parentDone
    /\ ctxDone

\* ------------------------------------------------- the program of main

\* the number of Sequence calls main makes on the same state
MaxCalls == 3

\* the work items of package riddle: each changes the counter and returns nil
AddOne == [out |-> "ok", delta |-> 1]
AddTwo == [out |-> "ok", delta |-> 2]
SubOne == [out |-> "ok", delta |-> -1]

\* the orders in which the three work items can be passed
RiddleBatches ==
    {f \in [1..3 -> {AddOne, AddTwo, SubOne}] :
        \A i, j \in 1..3 : i # j => f[i] # f[j]}

\* r := riddle.NewState(), then the first scope.Sequence(ctx, r, errChecker,
\* riddle.JustPrint, ...)
InitMain ==
    \E f \in RiddleBatches :
        InitCall([kind |-> "Sequence", wrapper |-> "plain", cleanUp |-> TRUE,
                  f |-> f])

\* NextCall as it would be if the calls did not share the state
NextCallFreshState ==
    /\ pc = "done"
    /\ cleanUpCalls < MaxCalls
    /\ pc' = "enter"
    /\ k' = 1
    /\ err' = NilErr
    /\ state' = 0
    /\ UNCHANGED <<call, item, errs, errsLen, nilIdx, success,
                   checkerCalls, checkerArg, cleanUpCalls, parentDone, ctxDone, crashed>>

\* a call has returned and main makes the next one, with the same ctx, the
\* same state r and the same arguments; JustPrint has run once in each call
\* made so far
NextCall ==
    /\ pc = "done"
    /\ cleanUpCalls < MaxCalls
    /\ pc' = "enter"
    /\ k' = 1
    /\ err' = NilErr
    /\ UNCHANGED <<call, item, errs, errsLen, nilIdx, success, state,
                   checkerCalls, checkerArg, cleanUpCalls, parentDone, ctxDone, crashed>>

NextMain ==
    \/ Derive
    \/ sequenceStep
    \/ sequenceReturn
    \/ errCheck
    \/ runCleanUp
    \/ Return
    \/ NextCall

SpecMain == InitMain /\ [][NextMain]_vars

\* C15: over consecutive Sequence calls on one counter that starts at 0, with
\* the items +1, +2, -1 and a cleanUp that only reads, the k-th invocation of
\* cleanUp finds the counter at 2k, and errChecker is never invoked.
C15_StatePersists ==
    [][/\ checkerCalls' = 0
       /\ cleanUpCalls' = cleanUpCalls + 1 => state = 2 * cleanUpCalls']_vars

\* the third call, on AddOne, AddTwo, SubOne, has returned: its cleanUp found
\* the counter at 6
C15_Witness ==
    /\ call.f = <<AddOne, AddTwo, SubOne>>
    /\ pc = "done"
    /\ cleanUpCalls = 3
    /\ state = 6
    /\ checkerCalls = 0

\* C16: errChecker is invoked neither in the step that invokes cleanUp nor
\* after it: in a call that reports, the report is over before cleanUp
\* starts.
C16_ReportPrecedesCleanUp ==
    [][(cleanUpCalls >= 1 \/ cleanUpCalls' > cleanUpCalls)
          => checkerCalls' = checkerCalls]_vars

\* a Sequence call that reported its failure and then ran cleanUp
C16_Witness ==
    /\ call.kind = "Sequence"
    /\ call.cleanUp
    /\ pc = "return"
    /\ checkerCalls = 1
    /\ cleanUpCalls = 1

\* The run in which every item has finished before the runner reads the
\* slots: the collection loop of parallel on the slots es, from 0-based
\* index i on
RECURSIVE JoinedNilIdx(_, _)
JoinedNilIdx(es, i) ==
    IF es = <<>> THEN <<>>
    ELSE (IF Head(es) = NilErr THEN <<i>> ELSE <<>>) \o JoinedNilIdx(Tail(es), i + 1)

\* and the compaction loop on the backing array a of length len with the
\* indices idx, followed by errors.Join
RECURSIVE JoinedCompact(_, _, _)
JoinedCompact(a, len, idx) ==
    IF idx = <<>> THEN Join(SubSeq(a, 1, len))
    ELSE IF Head(idx) + 1 > len THEN BoundsErr
    ELSE JoinedCompact(Delete(a, len, Head(idx)), len - 1, Tail(idx))

\* what parallel returns for batch f in that run
JoinedSuccess(f) == NilIdxLen + Count(f, "ok")
JoinedErr(f) ==
    LET es == [i \in DOMAIN f |-> OutcomeErr(f, i)]
    IN  JoinedCompact(es, Len(f),
                      Reverse([j \in 1..NilIdxLen |-> 0] \o JoinedNilIdx(es, 0)))

\* C17: for a batch of items that succeed, fail or fault whatever the timing,
\* All* / Any* have, when they return, invoked errChecker or not, and with the
\* failure, as in the run in which every item finished before the runner read
\* the slots: the report does not depend on the interleaving.
C17_SchedulingIndependentReport ==
    (/\ call.kind \in {"All", "Any"}
     /\ Count(call.f, "wait") = 0
     /\ pc = "done")
        => IF Reports(call.kind, JoinedSuccess(call.f), JoinedErr(call.f))
           THEN checkerCalls = 1 /\ checkerArg = JoinedErr(call.f)
           ELSE checkerCalls = 0

\* All on four failing items, every failure collected: the compaction drops
\* the four of them and nothing is reported
C17_JoinedRun ==
    /\ call.kind = "All"
    /\ N = NilIdxLen
    /\ Count(call.f, "fail") = N
    /\ \A i \in 1..N : item[i] = "done"
    /\ CollectedAll
    /\ pc = "done"
    /\ checkerCalls = 0

\* All on the same four failing items, a failure missed by the collection:
\* the compaction faults and the fault is reported
C17_RacedRun ==
    /\ call.kind = "All"
    /\ N = NilIdxLen
    /\ Count(call.f, "fail") = N
    /\ pc = "done"
    /\ checkerCalls = 1
    /\ checkerArg = BoundsErr

\* C18: in All* / Any*, a launched work item that has not finished, and is
\* not waiting for its ctx, can take its next step, whatever its siblings
\* did and whatever the state of the ctx: nothing stops it from running to
\* completion.
C18_ItemsRunToCompletion ==
    call.kind \in {"All", "Any"} =>
        \A i \in 1..N :
            (item[i] \in {"ready", "running"} /\ ~Blocked(i))
                => ENABLED (workStart(i) \/ workFinish(i))

\* C20: in a *WithCancel call whose parent ctx is not cancelled, the derived
\* ctx is not cancelled while sequence is invoking items, while the goroutine
\* of an item is running, or while cleanUp is due.
C20_NoCancelWhileRunning ==
    (call.wrapper = "cancel" /\ ~parentDone) =>
        /\ pc \in {"sequence", "cleanup"} => ~ctxDone
        /\ \A i \in 1..N : item[i] = "running" => ~ctxDone

====
